---- MODULE Spec2Model ----
(***************************************************************************)
(* Model of the BITS HD admissions dashboard (src/app.py).                 *)
(*                                                                         *)
(* Strings are sequences of one-character strings, so that the regular     *)
(* expression of clean_numeric, str.strip and the lexicographic order of   *)
(* sort_values are computed on the characters.  A DataFrame is the         *)
(* sequence of its rows; a row is a function from column names to values.  *)
(* Scores are exact decimals, held as integers in units of 1/Scale.        *)
(***************************************************************************)
EXTENDS Integers, Sequences, FiniteSets, TLC

VARIABLES
    fileExists,     \* Path(DATA_PATH).exists()
    fileRaw,        \* the JSON array stored at DATA_PATH
    cache,          \* st.cache_data's entries for load_data, keyed by path
    pc,             \* position of the script run
    existsResult,   \* what line 64 evaluated to in this run
    df,             \* script globals of the run
    gate_df,
    hd_df,
    widgets,        \* session state of the sidebar widgets
    gated,
    hdd,
    combined,
    views,          \* elements rendered by the run so far
    arg,            \* argument and result of a function applied on its own
    res

runVars == <<fileExists, fileRaw, cache, pc, existsResult, df, gate_df, hd_df,
             widgets, gated, hdd, combined, views>>
vars == <<fileExists, fileRaw, cache, pc, existsResult, df, gate_df, hd_df,
          widgets, gated, hdd, combined, views, arg, res>>

(***************************************************************************)
(* Bounds                                                                  *)
(***************************************************************************)
\* longest raw numeric string enumerated for clean_numeric
MaxStrLen == 4
\* most rows of the dataset enumerated for load_data and split_modes
MaxSplitRows == 4
\* most rows of the frame enumerated for apply_filters
MaxFilterRows == 3
\* most rows of the filtered subset enumerated for the cutoff tables
MaxCutoffRows == 3
\* most rows of the data file in the script-run model
MaxFileRows == 2

(***************************************************************************)
(* Characters and strings                                                  *)
(***************************************************************************)
Digits == {"0", "1", "2", "3", "4", "5", "6", "7", "8", "9"}

DigitVal(c) ==
    CASE c = "0" -> 0 [] c = "1" -> 1 [] c = "2" -> 2 [] c = "3" -> 3
      [] c = "4" -> 4 [] c = "5" -> 5 [] c = "6" -> 6 [] c = "7" -> 7
      [] c = "8" -> 8 [] c = "9" -> 9

RECURSIVE Pow10(_)
Pow10(k) == IF k <= 0 THEN 1 ELSE 10 * Pow10(k - 1)

\* A float is held as value * Scale; every decimal the model parses has at
\* most FracDigits digits after the point, so the representation is exact.
FracDigits == IF MaxStrLen > 4 THEN MaxStrLen - 2 ELSE 2
Scale == Pow10(FracDigits)

\* float("nan"): not a value, compares false with > 0 and == 0
NaN == -1

Max(a, b) == IF a >= b THEN a ELSE b
Min(a, b) == IF a <= b THEN a ELSE b

SubStr(s, i, j) == IF i > j THEN <<>> ELSE SubSeq(s, i, j)

\* the end of the longest run of digits of s starting at i (i - 1 if none)
RECURSIVE DigitRunEnd(_, _)
DigitRunEnd(s, i) ==
    IF i <= Len(s) /\ s[i] \in Digits THEN DigitRunEnd(s, i + 1) ELSE i - 1

(***************************************************************************)
(* load_data.clean_numeric                                                 *)
(***************************************************************************)
\* a JSON value: null, or a value whose str() is text
Null == [type |-> "null", text |-> <<>>]
Str(t) == [type |-> "str", text |-> t]

\* Series.astype(str): str(None) is "None"
astype_str(v) == IF v.type = "null" THEN <<"N", "o", "n", "e">> ELSE v.text

\* no match of str.extract: a missing value
NoMatch == <<>>

\* the regular expression with the fraction left out: (\d+)
str_extract_int(s) ==
    LET starts == {i \in 1..Len(s) : s[i] \in Digits} IN
    IF starts = {} THEN NoMatch
    ELSE LET i == CHOOSE k \in starts : \A m \in starts : k <= m
         IN  SubStr(s, i, DigitRunEnd(s, i))

\* Series.str.extract(r"(\d+\.?\d*)")[0]: the leftmost match, each
\* quantifier greedy
str_extract(s) ==
    LET starts == {i \in 1..Len(s) : s[i] \in Digits} IN
    IF starts = {} THEN NoMatch
    ELSE LET i == CHOOSE k \in starts : \A m \in starts : k <= m
             j == DigitRunEnd(s, i)
             d == IF j + 1 <= Len(s) /\ s[j + 1] = "." THEN j + 1 ELSE j
             e == DigitRunEnd(s, d + 1)
         IN  SubStr(s, i, e)

\* the value of a string of digits
RECURSIVE IntOf(_)
IntOf(t) ==
    IF t = <<>> THEN 0 ELSE 10 * IntOf(SubStr(t, 1, Len(t) - 1)) + DigitVal(t[Len(t)])

\* pd.to_numeric(t, errors="coerce") of an extracted text: digits, an optional
\* point, digits; a missing value stays missing
to_numeric(t) ==
    IF t = NoMatch THEN NaN
    ELSE LET dots == {i \in 1..Len(t) : t[i] = "."}
             p == IF dots = {} THEN Len(t) + 1 ELSE CHOOSE i \in dots : TRUE
             whole == SubStr(t, 1, p - 1)
             frac == SubStr(t, p + 1, Len(t))
         IN  IntOf(whole) * Scale + IntOf(frac) * Pow10(FracDigits - Len(frac))

fillna(x, v) == IF x = NaN THEN v ELSE x

clean_numeric(v) == fillna(to_numeric(str_extract(astype_str(v))), 0)

(***************************************************************************)
(* load_data                                                               *)
(***************************************************************************)
Whitespace == {" "}

RECURSIVE lstrip(_)
lstrip(s) == IF s # <<>> /\ s[1] \in Whitespace THEN lstrip(Tail(s)) ELSE s

RECURSIVE rstrip(_)
rstrip(s) ==
    IF s # <<>> /\ s[Len(s)] \in Whitespace THEN rstrip(SubStr(s, 1, Len(s) - 1)) ELSE s

\* str.strip()
strip(s) == rstrip(lstrip(s))

\* the survey's questions, as the data file names the columns
Q_GATE == "GATE or GPAT score (if not through GATE/GPAT then put 0)"
Q_CORE == "BITS HD Marks Scored in (Paper 1+ Paper 2) for Core Engineering disciple (CS/MECH/CIVIL/IT/BIOTECH/ECE/ETC/EE)  (Enter 0 if not applicable)"
Q_SS == "BITS HD test marks (Paper 1 + Software systems) for  Software System only (SS) (Enter 0 if not applicable)"
Q_BRANCH == "For which ME / M.Pharm branch you got provisionally shortlisted at BITS ?"
Q_CAMPUS == "Which campus did you get admission (choose - not applicable if you did not get admission)"

\* the columns= mapping of df_.rename; a column it does not name keeps its name
rename(c) ==
    CASE c = Q_GATE -> "GATE Score"
      [] c = Q_CORE -> "HD Core"
      [] c = Q_SS -> "HD SS"
      [] c = Q_BRANCH -> "ME Branch"
      [] c = Q_CAMPUS -> "Campus"
      [] OTHER -> c

rename_columns(row) ==
    [c \in {rename(k) : k \in DOMAIN row} |->
        row[CHOOSE k \in DOMAIN row : rename(k) = c]]

\* the row keeps an 'HD Score' its input carries
hd_score_kept(row) ==
    IF "HD Score" \in DOMAIN row /\ row["HD Score"].type # "null"
    THEN clean_numeric(row["HD Score"])
    ELSE Max(row["HD Core"], row["HD SS"])

\* df_[["HD Core", "HD SS"]].max(axis=1)
hd_score(row) == Max(row["HD Core"], row["HD SS"])

\* lines 43-51 on one row, the columns already renamed
clean_row(row) ==
    LET numeric == [c \in DOMAIN row |->
                       IF c \in {"GATE Score", "HD Core", "HD SS"}
                       THEN clean_numeric(row[c]) ELSE row[c]]
        scored == [c \in DOMAIN numeric \cup {"HD Score"} |->
                       IF c = "HD Score" THEN hd_score(numeric) ELSE numeric[c]]
    IN  [c \in DOMAIN scored |->
            IF c \in {"ME Branch", "Campus"} THEN strip(astype_str(scored[c]))
            ELSE scored[c]]

\* load_data of the parsed JSON array: one cleaned row per object, in order
load_data(raw) == [i \in 1..Len(raw) |-> clean_row(rename_columns(raw[i]))]

(***************************************************************************)
(* split_modes                                                             *)
(***************************************************************************)
\* DataFrame.drop_duplicates(keep="last")
RECURSIVE drop_duplicates_last(_)
drop_duplicates_last(rows) ==
    IF rows = <<>> THEN <<>>
    ELSE IF \E j \in 2..Len(rows) : rows[j] = rows[1]
         THEN drop_duplicates_last(Tail(rows))
         ELSE <<rows[1]>> \o drop_duplicates_last(Tail(rows))

\* DataFrame.drop_duplicates(): a row equal in every column to an earlier
\* one is dropped
RECURSIVE drop_duplicates(_)
drop_duplicates(rows) ==
    IF rows = <<>> THEN <<>>
    ELSE LET n == Len(rows)
             init == drop_duplicates(SubStr(rows, 1, n - 1))
         IN  IF \E j \in 1..(n - 1) : rows[j] = rows[n] THEN init
             ELSE Append(init, rows[n])

\* the HD mask without its GATE Score == 0 conjunct
hd_mask_no_gate(row) == row["HD Score"] > 0

gate_mask(row) == row["GATE Score"] > 0

hd_mask(row) == row["GATE Score"] = 0 /\ row["HD Score"] > 0

split_modes(df_) ==
    [gate_df_ |-> drop_duplicates(SelectSeq(df_, gate_mask)),
     hd_df_ |-> drop_duplicates(SelectSeq(df_, hd_mask))]

(***************************************************************************)
(* apply_filters                                                           *)
(***************************************************************************)
\* the first option of the drill-down selectbox
AllBranches == <<"A", "l", "l", " ", "b", "r", "a", "n", "c", "h", "e", "s">>

\* the drill-down comparison replaces the mask instead of narrowing it
apply_filters_drill_only(df_, branch_filter, campus_filter, branch_drill) ==
    LET mask(row) ==
            IF branch_drill # AllBranches THEN row["ME Branch"] = branch_drill
            ELSE row["ME Branch"] \in branch_filter /\ row["Campus"] \in campus_filter
    IN  SelectSeq(df_, mask)

\* the two isin masks joined by | instead of &
apply_filters_or(df_, branch_filter, campus_filter, branch_drill) ==
    LET mask(row) ==
            /\ row["ME Branch"] \in branch_filter \/ row["Campus"] \in campus_filter
            /\ branch_drill # AllBranches => row["ME Branch"] = branch_drill
    IN  SelectSeq(df_, mask)

\* the three widget values are the script's globals the function reads
apply_filters(df_, branch_filter, campus_filter, branch_drill) ==
    LET mask(row) ==
            /\ row["ME Branch"] \in branch_filter /\ row["Campus"] \in campus_filter
            /\ branch_drill # AllBranches => row["ME Branch"] = branch_drill
    IN  SelectSeq(df_, mask)

(***************************************************************************)
(* gate_cutoff, hd_cutoff                                                  *)
(***************************************************************************)
\* the characters of the model in code-point order
CodePointOrder ==
    <<" ", "(", ")", "-", ".", "0", "1", "2", "3", "4", "5", "6", "7", "8", "9",
      "A", "B", "C", "D", "E", "F", "G", "H", "I", "J", "K", "L", "M", "N", "O",
      "P", "Q", "R", "S", "T", "U", "V", "W", "X", "Y", "Z",
      "a", "b", "c", "d", "e", "f", "g", "h", "i", "j", "k", "l", "m", "n", "o",
      "p", "q", "r", "s", "t", "u", "v", "w", "x", "y", "z">>

Ord(c) == CHOOSE i \in 1..Len(CodePointOrder) : CodePointOrder[i] = c

\* s < t for Python strings
RECURSIVE StrLess(_, _)
StrLess(s, t) ==
    IF t = <<>> THEN FALSE
    ELSE IF s = <<>> THEN TRUE
    ELSE IF s[1] # t[1] THEN Ord(s[1]) < Ord(t[1])
    ELSE StrLess(Tail(s), Tail(t))

\* (ME Branch, Campus) keys compared as sort_values(["ME Branch", "Campus"]) does
KeyLess(k1, k2) == StrLess(k1[1], k2[1]) \/ (k1[1] = k2[1] /\ StrLess(k1[2], k2[2]))

\* a set of keys as the ascending sequence
RECURSIVE SortKeys(_)
SortKeys(keys) ==
    IF keys = {} THEN <<>>
    ELSE LET least == CHOOSE k \in keys : \A o \in keys \ {k} : KeyLess(k, o)
         IN  <<least>> \o SortKeys(keys \ {least})

RECURSIVE SeqSum(_)
SeqSum(xs) == IF xs = <<>> THEN 0 ELSE xs[1] + SeqSum(Tail(xs))

RECURSIVE SeqMin(_)
SeqMin(xs) == IF Len(xs) = 1 THEN xs[1] ELSE Min(xs[1], SeqMin(Tail(xs)))

RECURSIVE SeqMax(_)
SeqMax(xs) == IF Len(xs) = 1 THEN xs[1] ELSE Max(xs[1], SeqMax(Tail(xs)))

\* Series.mean(): the sum over the count, kept as a fraction
mean(xs) == [num |-> SeqSum(xs), den |-> Len(xs)]

\* the nearest integer to n / d, a tie going to the even one (n >= 0, d > 0)
RoundHalfEven(n, d) ==
    LET q == n \div d
        r == n % d
    IN  IF 2 * r < d THEN q
        ELSE IF 2 * r > d THEN q + 1
        ELSE IF q % 2 = 0 THEN q ELSE q + 1

\* int(x * 100) / 100: the digits after the second dropped
format_mean_truncating(x) ==
    ((x.num * 100) \div (x.den * Scale)) * (Scale \div 100)

\* round(float(x), 2): x in units of 1/Scale, the result too
format_mean(x) == RoundHalfEven(x.num * 100, x.den * Scale) * (Scale \div 100)

\* frame.groupby(["ME Branch", "Campus"])[col].agg(["min", "max", "mean",
\* "count"]).reset_index().sort_values(["ME Branch", "Campus"]), then the mean
\* column through format_mean
cutoff(frame, col) ==
    LET keys == {<<frame[i]["ME Branch"], frame[i]["Campus"]>> : i \in 1..Len(frame)}
        sorted == SortKeys(keys)
        in_group(k) ==
            LET test(row) == row["ME Branch"] = k[1] /\ row["Campus"] = k[2]
            IN  SelectSeq(frame, test)
        scores(k) == [i \in 1..Len(in_group(k)) |-> in_group(k)[i][col]]
    IN  [g \in 1..Len(sorted) |->
            [branch |-> sorted[g][1], campus |-> sorted[g][2],
             min |-> SeqMin(scores(sorted[g])), max |-> SeqMax(scores(sorted[g])),
             mean |-> format_mean(mean(scores(sorted[g]))),
             count |-> Len(scores(sorted[g]))]]

\* one object of the JSON array
RawRow(gate, core, ss, hdin, branch, campus) ==
    (Q_GATE :> gate) @@ (Q_CORE :> core) @@ (Q_SS :> ss) @@ ("HD Score" :> hdin)
        @@ (Q_BRANCH :> branch) @@ (Q_CAMPUS :> campus)

CS == <<"C", "S">>
EE == <<"E", "E">>
Goa == <<"G", "o", "a">>
Pilani == <<"P", "i", "l", "a", "n", "i">>
S_0 == Str(<<"0">>)
S_5 == Str(<<"5">>)
S_7p5 == Str(<<"7", ".", "5">>)

RECURSIVE SeqsUpTo(_, _)
SeqsUpTo(S, n) ==
    IF n = 0 THEN {<<>>}
    ELSE LET shorter == SeqsUpTo(S, n - 1)
         IN  shorter \cup {Append(s, x) : s \in shorter, x \in S}

Rows(frame) == {frame[i] : i \in 1..Len(frame)}

\* the place of the first row of frame equal to row
FirstAt(frame, row) ==
    CHOOSE i \in 1..Len(frame) :
        frame[i] = row /\ \A j \in 1..(i - 1) : frame[j] # row

\* sub holds exactly the rows of frame satisfying P, each once, in the order
\* of their first occurrences in frame
DistinctInOrder(sub, frame, P(_)) ==
    /\ Rows(sub) = {r \in Rows(frame) : P(r)}
    /\ \A i, j \in 1..Len(sub) : i < j =>
          /\ sub[i] # sub[j]
          /\ FirstAt(frame, sub[i]) < FirstAt(frame, sub[j])

(***************************************************************************)
(* The script: Streamlit runs app.py from the top for a new session and    *)
(* again after every interaction; the cache of load_data and the widget    *)
(* values outlive a run, the script's globals do not.                      *)
(***************************************************************************)
LifeRawRows ==
    { \* admitted through GATE
      RawRow(Str(<<"5", "5", ".", "5", " ", "(", "G", "e", "n", ")">>), S_0, S_0,
             Null, Str(<<" ", "C", "S">>), Str(Goa)),
      \* admitted through the BITS-HD test; the input carries an HD Score
      RawRow(S_0, S_5, S_7p5, Str(<<"9", "9">>), Str(EE), Str(Pilani)) }

\* the contents the data file can have
FileVersions == SeqsUpTo(LifeRawRows, MaxFileRows)

PcRank ==
    [p \in {"exists", "load", "split", "sidebar", "summary", "tab_gate", "tab_hd",
            "raw", "done", "stopped", "failed"} |->
        CASE p = "exists" -> 1 [] p = "load" -> 2 [] p = "split" -> 3
          [] p = "sidebar" -> 4 [] p = "summary" -> 5 [] p = "tab_gate" -> 6
          [] p = "tab_hd" -> 7 [] p = "raw" -> 8 [] p = "done" -> 9
          [] OTHER -> 0]

\* the run has executed the line that leads to position p
Past(p) == PcRank[pc] > PcRank[p]

NoWidgets == [shown |-> FALSE]

GateViews == {"gate_metrics", "gate_hist", "gate_box", "gate_cutoff",
              "gate_branch_bar", "gate_campus_bar", "gate_branch_pie"}
HdViews == {"hd_metrics", "hd_hist", "hd_box", "hd_cutoff",
            "hd_branch_bar", "hd_campus_bar", "hd_branch_pie"}

all_branches(frame) == {frame[i]["ME Branch"] : i \in 1..Len(frame)}
all_campuses(frame) == {frame[i]["Campus"] : i \in 1..Len(frame)}

Init ==
    /\ fileExists \in BOOLEAN
    /\ fileRaw \in FileVersions
    /\ ~fileExists => fileRaw = <<>>
    /\ cache = <<>>
    /\ pc = "exists"
    /\ existsResult = "unset"
    /\ df = <<>> /\ gate_df = <<>> /\ hd_df = <<>>
    /\ widgets = NoWidgets
    /\ gated = <<>> /\ hdd = <<>> /\ combined = <<>>
    /\ views = {}
    /\ arg = <<>> /\ res = <<>>

\* lines 64-66 without st.stop(): the error is shown and the script goes on
CheckPathNoStop ==
    /\ pc = "exists"
    /\ existsResult' = IF fileExists THEN "found" ELSE "missing"
    /\ views' = IF fileExists THEN views ELSE views \cup {"st.error"}
    /\ pc' = "load"
    /\ UNCHANGED <<fileExists, fileRaw, cache, df, gate_df, hd_df, widgets, gated,
                   hdd, combined, arg, res>>

\* lines 64-66: st.stop() ends the run; the widgets it did not reach are gone
CheckPath ==
    /\ pc = "exists"
    /\ IF fileExists
       THEN /\ existsResult' = "found"
            /\ pc' = "load"
            /\ UNCHANGED <<views, widgets>>
       ELSE /\ existsResult' = "missing"
            /\ views' = {"st.error"}
            /\ pc' = "stopped"
            /\ widgets' = NoWidgets
    /\ UNCHANGED <<fileExists, fileRaw, cache, df, gate_df, hd_df, gated, hdd,
                   combined, arg, res>>

\* load_data behind a cache that is keyed by the file's modification too: the
\* body runs again when the file has changed since the entry was made
LoadDataPerVersion ==
    /\ pc = "load"
    /\ IF cache # <<>> /\ (~fileExists \/ cache[1] = load_data(fileRaw))
       THEN /\ df' = cache[1]
            /\ pc' = "split"
            /\ UNCHANGED <<cache, views, widgets>>
       ELSE IF fileExists /\ fileRaw # <<>>
       THEN /\ df' = load_data(fileRaw)
            /\ cache' = <<load_data(fileRaw)>>
            /\ pc' = "split"
            /\ UNCHANGED <<views, widgets>>
       ELSE /\ pc' = "failed"
            /\ views' = views \cup {"exception"}
            /\ widgets' = NoWidgets
            /\ UNCHANGED <<cache, df>>
    /\ UNCHANGED <<fileExists, fileRaw, existsResult, gate_df, hd_df, gated, hdd,
                   combined, arg, res>>

\* line 68 and @st.cache_data (line 14): the entry is keyed by the argument,
\* the path, and has no ttl; with an entry the body does not run.  Without
\* one the body runs: open() raises if the file has gone since line 64, and
\* an array with no object makes a frame with no "GATE Score" column, which
\* line 43 cannot read.
LoadData ==
    /\ pc = "load"
    /\ IF cache # <<>>
       THEN /\ df' = cache[1]
            /\ pc' = "split"
            /\ UNCHANGED <<cache, views, widgets>>
       ELSE IF fileExists /\ fileRaw # <<>>
       THEN /\ df' = load_data(fileRaw)
            /\ cache' = <<load_data(fileRaw)>>
            /\ pc' = "split"
            /\ UNCHANGED <<views, widgets>>
       ELSE /\ pc' = "failed"
            /\ views' = views \cup {"exception"}
            /\ widgets' = NoWidgets
            /\ UNCHANGED <<cache, df>>
    /\ UNCHANGED <<fileExists, fileRaw, existsResult, gate_df, hd_df, gated, hdd,
                   combined, arg, res>>

\* line 69
SplitModes ==
    /\ pc = "split"
    /\ gate_df' = split_modes(df).gate_df_
    /\ hd_df' = split_modes(df).hd_df_
    /\ pc' = "sidebar"
    /\ UNCHANGED <<fileExists, fileRaw, cache, existsResult, df, widgets, gated,
                   hdd, combined, views, arg, res>>

\* lines 71-105: a widget shown for the first time takes its default, one
\* shown before keeps the value the user gave it
Sidebar ==
    /\ pc = "sidebar"
    /\ widgets' = IF widgets.shown THEN widgets
                  ELSE [shown |-> TRUE, selected_mode |-> "All",
                        branch_filter |-> all_branches(df),
                        campus_filter |-> all_campuses(df),
                        branch_drill |-> AllBranches]
    /\ views' = views \cup {"filters"}
    /\ pc' = "summary"
    /\ UNCHANGED <<fileExists, fileRaw, cache, existsResult, df, gate_df, hd_df,
                   gated, hdd, combined, arg, res>>

\* lines 114-139
Summary ==
    /\ pc = "summary"
    /\ views' = views \cup {"title", "summary_metrics"}
                  \cup (IF widgets.branch_drill # AllBranches THEN {"drill_info"} ELSE {})
    /\ pc' = "tab_gate"
    /\ UNCHANGED <<fileExists, fileRaw, cache, existsResult, df, gate_df, hd_df,
                   widgets, gated, hdd, combined, arg, res>>

Filtered(frame) ==
    apply_filters(frame, widgets.branch_filter, widgets.campus_filter,
                  widgets.branch_drill)

\* lines 153-295 without the test of line 158
TabGateUnguarded ==
    /\ pc = "tab_gate"
    /\ gated' = Filtered(gate_df)
    /\ views' = views \cup GateViews
    /\ pc' = "tab_hd"
    /\ UNCHANGED <<fileExists, fileRaw, cache, existsResult, df, gate_df, hd_df,
                   widgets, hdd, combined, arg, res>>

\* lines 153-295
TabGate ==
    /\ pc = "tab_gate"
    /\ gated' = Filtered(gate_df)
    /\ views' = IF Filtered(gate_df) = <<>> THEN views \cup {"gate_info"}
                ELSE views \cup GateViews
    /\ pc' = "tab_hd"
    /\ UNCHANGED <<fileExists, fileRaw, cache, existsResult, df, gate_df, hd_df,
                   widgets, hdd, combined, arg, res>>

\* lines 298-440
TabHd ==
    /\ pc = "tab_hd"
    /\ hdd' = Filtered(hd_df)
    /\ views' = IF Filtered(hd_df) = <<>> THEN views \cup {"hd_info"}
                ELSE views \cup HdViews
    /\ pc' = "raw"
    /\ UNCHANGED <<fileExists, fileRaw, cache, existsResult, df, gate_df, hd_df,
                   widgets, gated, combined, arg, res>>

\* lines 442-459: the table is shown whatever combined holds
RawTable ==
    /\ pc = "raw"
    /\ combined' = IF widgets.selected_mode = "GATE only" THEN Filtered(gate_df)
                   ELSE IF widgets.selected_mode = "BITS-HD Test only" THEN Filtered(hd_df)
                   ELSE Filtered(df)
    /\ views' = views \cup {"raw_table"}
    /\ pc' = "done"
    /\ UNCHANGED <<fileExists, fileRaw, cache, existsResult, df, gate_df, hd_df,
                   widgets, gated, hdd, arg, res>>

\* Streamlit starts the script again from line 1: nothing of the last run is
\* left but the cache and the widget values
StartRun(w) ==
    /\ widgets' = w
    /\ pc' = "exists"
    /\ existsResult' = "unset"
    /\ df' = <<>> /\ gate_df' = <<>> /\ hd_df' = <<>>
    /\ gated' = <<>> /\ hdd' = <<>> /\ combined' = <<>>
    /\ views' = {}
    /\ UNCHANGED <<fileExists, fileRaw, cache, arg, res>>

\* the user picks another admission mode (line 76)
ChangeMode ==
    /\ widgets.shown
    /\ \E m \in {"All", "GATE only", "BITS-HD Test only"} \ {widgets.selected_mode} :
          StartRun([widgets EXCEPT !.selected_mode = m])

\* the user changes the branch selection (line 82); the options are the
\* branches of the dataset
ChangeBranches ==
    /\ widgets.shown
    /\ \E b \in (SUBSET all_branches(cache[1])) \ {widgets.branch_filter} :
          StartRun([widgets EXCEPT !.branch_filter = b])

\* the user changes the campus selection (line 88)
ChangeCampuses ==
    /\ widgets.shown
    /\ \E c \in (SUBSET all_campuses(cache[1])) \ {widgets.campus_filter} :
          StartRun([widgets EXCEPT !.campus_filter = c])

\* the user picks another drill-down option (line 96)
ChangeDrill ==
    /\ widgets.shown
    /\ \E d \in ({AllBranches} \cup all_branches(cache[1])) \ {widgets.branch_drill} :
          StartRun([widgets EXCEPT !.branch_drill = d])

\* the user moves a histogram slider (lines 172, 317), shown with a tab that
\* is not empty; the bin count only shapes the histogram and is not kept here
ChangeBins ==
    /\ widgets.shown
    /\ "gate_hist" \in views \/ "hd_hist" \in views
    /\ StartRun(widgets)

\* the user asks for a rerun
Rerun == \E w \in {widgets} : StartRun(w)

\* the data file is written, replaced or removed while the server runs
ModifyFile ==
    /\ fileExists
    /\ \E v \in FileVersions \ {fileRaw} : fileRaw' = v
    /\ UNCHANGED <<fileExists, cache, pc, existsResult, df, gate_df, hd_df, widgets,
                   gated, hdd, combined, views, arg, res>>

DeleteFile ==
    /\ fileExists
    /\ fileExists' = FALSE
    /\ fileRaw' = <<>>
    /\ UNCHANGED <<cache, pc, existsResult, df, gate_df, hd_df, widgets, gated, hdd,
                   combined, views, arg, res>>

CreateFile ==
    /\ ~fileExists
    /\ fileExists' = TRUE
    /\ \E v \in FileVersions : fileRaw' = v
    /\ UNCHANGED <<cache, pc, existsResult, df, gate_df, hd_df, widgets, gated, hdd,
                   combined, views, arg, res>>

Next ==
    \/ CheckPath \/ LoadData \/ SplitModes \/ Sidebar \/ Summary
    \/ TabGate \/ TabHd \/ RawTable
    \/ ChangeMode \/ ChangeBranches \/ ChangeCampuses \/ ChangeDrill \/ ChangeBins \/ Rerun
    \/ ModifyFile \/ DeleteFile \/ CreateFile

Spec == Init /\ [][Next]_vars

(***************************************************************************)
(* C6: a run that finds the data file missing reports the error and ends:  *)
(* it reaches neither load_data nor split_modes nor the widgets nor any    *)
(* view, whatever earlier runs have cached.                                *)
(***************************************************************************)
C6_MissingFileHalts ==
    existsResult = "missing" =>
        /\ pc = "stopped"
        /\ views = {"st.error"}
        /\ df = <<>> /\ gate_df = <<>> /\ hd_df = <<>>
        /\ gated = <<>> /\ hdd = <<>> /\ combined = <<>>
        /\ ~widgets.shown

\* the file has gone after an earlier run cached the dataset, and the next
\* run has stopped at line 66
C6_Witness ==
    /\ existsResult = "missing"
    /\ pc = "stopped"
    /\ cache # <<>>

(***************************************************************************)
(* C7, as stated: whenever a run executes load_data while the file holds    *)
(* records, the dataset it gets is the normalization of the file's current *)
(* version.                                                                *)
(***************************************************************************)
C7_LoadedPerVersion ==
    [][(pc = "load" /\ pc' = "split" /\ fileExists /\ fileRaw # <<>>)
          => df' = load_data(fileRaw)]_vars

(***************************************************************************)
(* C7, amended: load_data's body runs only when the cache holds no entry   *)
(* for the path; once made, the entry is never replaced, whatever happens  *)
(* to the file, and every later run gets the cached dataset.               *)
(***************************************************************************)
C7_LoadedOncePerProcess ==
    /\ [][(pc = "load" /\ pc' = "split") =>
            IF cache = <<>> THEN df' = load_data(fileRaw) /\ cache' = <<df'>>
            ELSE df' = cache[1]]_vars
    /\ [][cache # <<>> => cache' = cache]_vars

\* a run works on a cached dataset that is not the normalization of the file
\* as it is now
C7_Witness ==
    /\ pc = "split"
    /\ fileExists /\ fileRaw # <<>>
    /\ cache # <<>> /\ df = cache[1]
    /\ df # load_data(fileRaw)

\* a tab whose filtered subset is empty shows its message and nothing else
C8_TabsEmptyState ==
    /\ (Past("tab_gate") /\ gated = <<>>) =>
          "gate_info" \in views /\ views \cap GateViews = {}
    /\ (Past("tab_hd") /\ hdd = <<>>) =>
          "hd_info" \in views /\ views \cap HdViews = {}

(***************************************************************************)
(* C8, as stated: whenever a filtered result is empty, the view that       *)
(* consumes it shows an empty-state message and nothing computed from the  *)
(* empty set: the GATE tab, the BITS-HD tab and the raw-data table.        *)
(***************************************************************************)
C8_EmptyStateEverywhere ==
    /\ C8_TabsEmptyState
    /\ (Past("raw") /\ combined = <<>>) =>
          "raw_info" \in views /\ "raw_table" \notin views

(***************************************************************************)
(* C8, amended: whenever the filtered GATE subset or the filtered HD       *)
(* subset is empty, its tab shows the empty-state message and none of its  *)
(* metrics, charts and tables; the raw-data table is shown in every run    *)
(* that reaches it, also when its filtered result is empty, and with no    *)
(* message.                                                                *)
(***************************************************************************)
C8_EmptyStateInTabs ==
    /\ C8_TabsEmptyState
    /\ (Past("tab_gate") /\ gated # <<>>) =>
          "gate_info" \notin views /\ GateViews \subseteq views
    /\ (Past("tab_hd") /\ hdd # <<>>) =>
          "hd_info" \notin views /\ HdViews \subseteq views
    /\ Past("raw") => "raw_table" \in views /\ "raw_info" \notin views

\* mode 'GATE only' with a selection that leaves no GATE row but an HD row:
\* the GATE tab shows its message, the HD tab its charts, the raw table is
\* shown empty
C8_Witness ==
    /\ pc = "done"
    /\ widgets.selected_mode = "GATE only"
    /\ gated = <<>> /\ hdd # <<>> /\ combined = <<>>
    /\ "gate_info" \in views /\ "hd_cutoff" \in views /\ "raw_table" \in views

HdScoreIsMax(frame) ==
    \A i \in 1..Len(frame) :
        frame[i]["HD Score"] = Max(frame[i]["HD Core"], frame[i]["HD SS"])

C9_State ==
    /\ cache # <<>> => HdScoreIsMax(cache[1])
    /\ Past("load") => cache # <<>> /\ df = cache[1]
    /\ Past("split") =>
          /\ DistinctInOrder(gate_df, cache[1], gate_mask)
          /\ DistinctInOrder(hd_df, cache[1], hd_mask)
    /\ HdScoreIsMax(df) /\ HdScoreIsMax(gate_df) /\ HdScoreIsMax(hd_df)

(***************************************************************************)
(* C9: after load and after any interactions, the dataset a run works on   *)
(* is the one that was loaded, the two subsets are its split, and every    *)
(* row of them has HD Score = max(HD Core, HD SS), also when the input     *)
(* carried an 'HD Score'.                                                  *)
(***************************************************************************)
C9_DatasetUnchanged ==
    /\ []C9_State
    /\ [][(df # <<>> /\ df' # <<>>) => df' = df]_vars
    /\ [][(gate_df # <<>> /\ gate_df' # <<>>) => gate_df' = gate_df]_vars
    /\ [][(hd_df # <<>> /\ hd_df' # <<>>) => hd_df' = hd_df]_vars
    /\ [][cache # <<>> => cache' = cache]_vars

\* a run after a drill-down was chosen: the HD row whose input said
\* 'HD Score' 99 has the score 7.5 = max(5, 7.5), and the filtered GATE
\* subset is smaller than the GATE subset
C9_Witness ==
    /\ pc = "done"
    /\ widgets.branch_drill = EE
    /\ hd_df # <<>> /\ hd_df[1]["HD Score"] = 7 * Scale + Scale \div 2
    /\ gate_df # <<>> /\ gated = <<>>

(***************************************************************************)
(* clean_numeric applied on its own                                        *)
(***************************************************************************)
NumChars == {"0", "5", ".", "x", "-"}

RawNumerics == {Null} \cup {Str(s) : s \in SeqsUpTo(NumChars, MaxStrLen)}

RunIdle ==
    /\ fileExists = FALSE
    /\ fileRaw = <<>>
    /\ cache = <<>>
    /\ pc = "none"
    /\ existsResult = "unset"
    /\ df = <<>>
    /\ gate_df = <<>>
    /\ hd_df = <<>>
    /\ widgets = [shown |-> FALSE]
    /\ gated = <<>>
    /\ hdd = <<>>
    /\ combined = <<>>
    /\ views = {}

InitNumeric ==
    /\ RunIdle
    /\ arg \in RawNumerics
    /\ res = [done |-> FALSE]

CleanNumericStep ==
    /\ res.done = FALSE
    /\ res' = [done |-> TRUE, value |-> clean_numeric(arg)]
    /\ UNCHANGED <<arg, runVars>>

NextNumeric == CleanNumericStep

SpecNumeric == InitNumeric /\ [][NextNumeric]_vars

(***************************************************************************)
(* load_data and split_modes applied on their own                          *)
(***************************************************************************)
SplitRawRows ==
    { \* admitted through GATE
      RawRow(Str(<<"5", "5", ".", "5", " ", "(", "G", "e", "n", ")">>), S_0, S_0,
             Null, Str(CS), Str(Goa)),
      \* the same entry once cleaned: padded branch, another spelling of 0
      RawRow(Str(<<"5", "5", ".", "5">>), Str(<<"N", "A">>), S_0,
             Null, Str(<<" ", "C", "S", " ">>), Str(Goa)),
      \* admitted through the BITS-HD test; the input carries an HD Score
      RawRow(S_0, S_5, S_7p5, Str(<<"9", "9">>), Str(EE), Str(Goa)),
      RawRow(Str(<<"n", "o">>), S_7p5, S_5, Null, Str(EE), Str(Pilani)),
      \* both scores zero: not admitted
      RawRow(S_0, S_0, Null, Null, Str(CS), Null),
      \* a GATE score and a test score
      RawRow(S_5, S_7p5, S_0, Null, Str(EE), Str(Pilani)) }

InitSplit ==
    /\ RunIdle
    /\ arg \in SeqsUpTo(SplitRawRows, MaxSplitRows)
    /\ res = [stage |-> "raw"]

ApplyLoadData ==
    /\ res.stage = "raw"
    /\ res' = [stage |-> "loaded", df |-> load_data(arg)]
    /\ UNCHANGED <<arg, runVars>>

ApplySplitModes ==
    /\ res.stage = "loaded"
    /\ res' = [stage |-> "split", df |-> res.df,
               gate_df |-> split_modes(res.df).gate_df_,
               hd_df |-> split_modes(res.df).hd_df_]
    /\ UNCHANGED <<arg, runVars>>

NextSplit == ApplyLoadData \/ ApplySplitModes

SpecSplit == InitSplit /\ [][NextSplit]_vars

(***************************************************************************)
(* C1: the GATE subset and the HD subset returned by split_modes share no  *)
(* row, and every row of either satisfies exactly one of GATE Score > 0    *)
(* and (GATE Score = 0 and HD Score > 0).                                  *)
(***************************************************************************)
C1_Disjoint ==
    res.stage = "split" =>
        /\ Rows(res.gate_df) \cap Rows(res.hd_df) = {}
        /\ \A r \in Rows(res.gate_df) \cup Rows(res.hd_df) :
              (r["GATE Score"] > 0) # (r["GATE Score"] = 0 /\ r["HD Score"] > 0)

\* a dataset with a row with both a GATE score and a test score has been split
\* into two subsets that are not empty
C1_Witness ==
    /\ res.stage = "split"
    /\ res.gate_df # <<>> /\ res.hd_df # <<>>
    /\ \E r \in Rows(res.gate_df) : r["HD Score"] > 0

\* the two admission modes, as the data model states them
C10_gate(r) == r["GATE Score"] > 0
C10_hd(r) == r["GATE Score"] = 0 /\ r["HD Score"] > 0

(***************************************************************************)
(* C10: split_modes returns as GATE subset exactly the distinct rows with  *)
(* GATE Score > 0 and as HD subset exactly the distinct rows with GATE     *)
(* Score = 0 and HD Score > 0; of equal rows the first is kept, the kept   *)
(* rows stay in input order, and a row with both scores 0 is in neither    *)
(* subset while it stays in the full dataset.                              *)
(***************************************************************************)
C10_SplitExact ==
    res.stage = "split" =>
        /\ DistinctInOrder(res.gate_df, res.df, C10_gate)
        /\ DistinctInOrder(res.hd_df, res.df, C10_hd)
        /\ res.df = load_data(arg)
        /\ \A r \in Rows(res.df) :
              (r["GATE Score"] = 0 /\ r["HD Score"] = 0) =>
                  r \notin Rows(res.gate_df) \cup Rows(res.hd_df)

\* a dataset holding a GATE row twice, another GATE row between the two, and
\* a row with both scores 0
C10_Witness ==
    /\ res.stage = "split"
    /\ Len(res.df) = 4
    /\ res.df[1] = res.df[3] /\ res.df[1] # res.df[2]
    /\ res.df[4]["GATE Score"] = 0 /\ res.df[4]["HD Score"] = 0
    /\ res.gate_df = <<res.df[1], res.df[2]>>

(***************************************************************************)
(* apply_filters applied on its own, once and then on its own result       *)
(***************************************************************************)
FilterRawRows ==
    { RawRow(S_5, S_0, S_0, Null, Str(CS), Str(Goa)),
      RawRow(S_7p5, S_0, S_0, Null, Str(CS), Str(Pilani)),
      RawRow(S_0, S_5, S_7p5, Null, Str(EE), Str(Goa)),
      RawRow(S_0, S_7p5, S_0, Null, Str(EE), Str(<<"P", "i", "l", "a", "n", "i", " ">>)) }

\* the rows load_data makes of them
FilterRows == {clean_row(rename_columns(r)) : r \in FilterRawRows}

FilterBranches == {r["ME Branch"] : r \in FilterRows}
FilterCampuses == {r["Campus"] : r \in FilterRows}

\* the values the three widgets can hold
FilterConfigs ==
    [branches : SUBSET FilterBranches, campuses : SUBSET FilterCampuses,
     drill : {AllBranches} \cup FilterBranches]

filter(X, cfg) == apply_filters(X, cfg.branches, cfg.campuses, cfg.drill)

InitFilter ==
    /\ RunIdle
    /\ arg \in [X : SeqsUpTo(FilterRows, MaxFilterRows), cfg : FilterConfigs]
    /\ res = [stage |-> "input"]

ApplyFilters ==
    /\ res.stage = "input"
    /\ res' = [stage |-> "once", out |-> filter(arg.X, arg.cfg)]
    /\ UNCHANGED <<arg, runVars>>

ApplyFiltersAgain ==
    /\ res.stage = "once"
    /\ \E cfg2 \in FilterConfigs :
          res' = [stage |-> "twice", out |-> res.out, cfg2 |-> cfg2,
                  out2 |-> filter(res.out, cfg2)]
    /\ UNCHANGED <<arg, runVars>>

NextFilter == ApplyFilters \/ ApplyFiltersAgain

SpecFilter == InitFilter /\ [][NextFilter]_vars

\* sub is frame restricted to its rows satisfying P, in frame's order
IsRestriction(sub, frame, P(_)) ==
    LET idx == {i \in 1..Len(frame) : P(frame[i])}
        nth(k) == CHOOSE i \in idx : Cardinality({j \in idx : j < i}) = k - 1
    IN  /\ Len(sub) = Cardinality(idx)
        /\ \A k \in 1..Len(sub) : sub[k] = frame[nth(k)]

(***************************************************************************)
(* C2: apply_filters returns exactly the rows of its input whose branch is *)
(* among the selected branches and whose campus is among the selected      *)
(* campuses and, when a drill-down is set, whose branch is the drill-down  *)
(* branch; so an empty branch or campus selection, or a drill-down branch  *)
(* that is not selected, gives no row.                                     *)
(***************************************************************************)
C2_ApplyFilters ==
    res.stage = "once" =>
        LET matches(r) ==
                /\ r["ME Branch"] \in arg.cfg.branches
                /\ r["Campus"] \in arg.cfg.campuses
                /\ (arg.cfg.drill = AllBranches \/ r["ME Branch"] = arg.cfg.drill)
        IN  /\ IsRestriction(res.out, arg.X, matches)
            /\ arg.cfg.branches = {} => res.out = <<>>
            /\ arg.cfg.campuses = {} => res.out = <<>>
            /\ (arg.cfg.drill # AllBranches /\ arg.cfg.drill \notin arg.cfg.branches)
                  => res.out = <<>>

\* a branch and a campus selection and a drill-down have kept one row of three
C2_Witness ==
    /\ res.stage = "once"
    /\ Len(arg.X) = 3 /\ Len(res.out) = 1
    /\ arg.cfg.drill # AllBranches
    /\ arg.cfg.campuses # FilterCampuses

\* two configurations that can be merged, and their merge
compatible(cfg1, cfg2) ==
    cfg1.drill = cfg2.drill \/ cfg1.drill = AllBranches \/ cfg2.drill = AllBranches

merge(cfg1, cfg2) ==
    [branches |-> cfg1.branches \cap cfg2.branches,
     campuses |-> cfg1.campuses \cap cfg2.campuses,
     drill |-> IF cfg1.drill # AllBranches THEN cfg1.drill ELSE cfg2.drill]

(***************************************************************************)
(* C3: for configurations cfg1 and cfg2 whose drill-down values are equal  *)
(* or of which at most one is set, filtering by cfg1 and then by cfg2      *)
(* gives the rows, in the order, of filtering once by their merge: the     *)
(* branch sets intersected, the campus sets intersected, the set           *)
(* drill-down kept.  Filtering twice by one configuration is filtering     *)
(* once.                                                                   *)
(***************************************************************************)
C3_FilterComposes ==
    (res.stage = "twice" /\ compatible(arg.cfg, res.cfg2)) =>
        /\ res.out2 = filter(arg.X, merge(arg.cfg, res.cfg2))
        /\ res.cfg2 = arg.cfg => res.out2 = res.out

\* two different configurations, one of them with a drill-down, have been
\* applied in turn and rows are left
C3_Witness ==
    /\ res.stage = "twice"
    /\ compatible(arg.cfg, res.cfg2)
    /\ arg.cfg.drill # AllBranches /\ res.cfg2.drill = AllBranches
    /\ arg.cfg.branches # res.cfg2.branches
    /\ Len(res.out2) >= 1 /\ Len(res.out2) < Len(res.out) /\ Len(res.out) < Len(arg.X)

(***************************************************************************)
(* the cutoff table computed on its own                                    *)
(***************************************************************************)
S_60 == Str(<<"6", "0">>)
S_70 == Str(<<"7", "0">>)
S_80 == Str(<<"8", "0">>)

CutoffRawRows ==
    {RawRow(g, S_0, S_0, Null, Str(k[1]), Str(k[2])) :
        g \in {S_60, S_70, S_80, S_7p5},
        k \in {<<CS, Pilani>>, <<CS, Goa>>, <<EE, Goa>>}}
    \cup
    {RawRow(S_0, c, S_5, Null, Str(k[1]), Str(k[2])) :
        c \in {S_0, S_7p5},
        k \in {<<CS, Pilani>>, <<EE, Goa>>}}

GateRows == {r \in {clean_row(rename_columns(x)) : x \in CutoffRawRows} : gate_mask(r)}
HdRows == {r \in {clean_row(rename_columns(x)) : x \in CutoffRawRows} : hd_mask(r)}

\* a filtered subset: rows of one admission mode, no row twice, not empty
CutoffInputs ==
    {[col |-> "GATE Score", frame |-> f] :
        f \in {x \in SeqsUpTo(GateRows, MaxCutoffRows) : x # <<>> /\ drop_duplicates(x) = x}}
    \cup
    {[col |-> "HD Score", frame |-> f] :
        f \in {x \in SeqsUpTo(HdRows, MaxCutoffRows) : x # <<>> /\ drop_duplicates(x) = x}}

InitCutoff ==
    /\ RunIdle
    /\ arg \in CutoffInputs
    /\ res = [stage |-> "input"]

ComputeCutoff ==
    /\ res.stage = "input"
    /\ res' = [stage |-> "table", table |-> cutoff(arg.frame, arg.col)]
    /\ UNCHANGED <<arg, runVars>>

NextCutoff == ComputeCutoff

SpecCutoff == InitCutoff /\ [][NextCutoff]_vars

(***************************************************************************)
(* C5: the cutoff table of a filtered subset that is not empty has exactly *)
(* one row per (branch, campus) pair of the subset, the rows ascending by  *)
(* (branch, campus); a row holds the least and the greatest score of its   *)
(* group, their count, and the arithmetic mean of the unrounded scores     *)
(* rounded to 2 decimals.                                                  *)
(***************************************************************************)
C5_Cutoff ==
    res.stage = "table" =>
        LET T == res.table
            F == arg.frame
            pairs == {<<F[i]["ME Branch"], F[i]["Campus"]>> : i \in 1..Len(F)}
            group(k) == {i \in 1..Len(F) : <<F[i]["ME Branch"], F[i]["Campus"]>> = k}
            total(k) ==
                LET RECURSIVE add(_)
                    add(S) == IF S = {} THEN 0
                              ELSE LET i == CHOOSE j \in S : TRUE
                                   IN  F[i][arg.col] + add(S \ {i})
                IN  add(group(k))
        IN  /\ {<<T[g].branch, T[g].campus>> : g \in 1..Len(T)} = pairs
            /\ Len(T) = Cardinality(pairs)
            /\ \A g \in 1..(Len(T) - 1) :
                  KeyLess(<<T[g].branch, T[g].campus>>, <<T[g + 1].branch, T[g + 1].campus>>)
            /\ \A g \in 1..Len(T) :
                  LET k == <<T[g].branch, T[g].campus>>
                      n == Cardinality(group(k))
                      diff == T[g].mean * n - total(k)
                  IN  /\ T[g].count = n
                      /\ \E i \in group(k) : F[i][arg.col] = T[g].min
                      /\ \A i \in group(k) : F[i][arg.col] >= T[g].min
                      /\ \E i \in group(k) : F[i][arg.col] = T[g].max
                      /\ \A i \in group(k) : F[i][arg.col] <= T[g].max
                      \* a multiple of 0.01 within 0.005 of the exact mean
                      /\ T[g].mean % (Scale \div 100) = 0
                      /\ 200 * diff <= n * Scale /\ -200 * diff <= n * Scale

\* (CS, Pilani) with scores 70 and 80 and (CS, Goa) with 60: the rows are
\* (CS, Goa, 60, 60, 60.0, 1) and (CS, Pilani, 70, 80, 75.0, 2)
C5_Witness ==
    /\ res.stage = "table"
    /\ arg.col = "GATE Score"
    /\ res.table =
         <<[branch |-> CS, campus |-> Goa, min |-> 60 * Scale, max |-> 60 * Scale,
            mean |-> 60 * Scale, count |-> 1],
           [branch |-> CS, campus |-> Pilani, min |-> 70 * Scale, max |-> 80 * Scale,
            mean |-> 75 * Scale, count |-> 2]>>

\* s[i..j] is one or more digits, optionally followed by "." and digits
IsDecimalNumber(s, i, j) ==
    /\ 1 <= i /\ i <= j /\ j <= Len(s)
    /\ \A k \in i..j : s[k] \in Digits \cup {"."}
    /\ Cardinality({k \in i..j : s[k] = "."}) <= 1
    /\ s[i] \in Digits /\ s[j] \in Digits

\* the value of s[i..j], digit by digit
DecimalValue(s, i, j) ==
    LET p == IF \E k \in i..j : s[k] = "." THEN CHOOSE k \in i..j : s[k] = "."
             ELSE j + 1
        weight(k) == IF k < p THEN Scale * Pow10(p - 1 - k)
                     ELSE Pow10(FracDigits - (k - p))
        RECURSIVE sum(_)
        sum(k) == IF k > j THEN 0
                  ELSE (IF k = p THEN 0 ELSE DigitVal(s[k]) * weight(k)) + sum(k + 1)
    IN  sum(i)

FirstDecimalNumber(s) ==
    LET matches == {m \in (1..Len(s)) \X (1..Len(s)) : IsDecimalNumber(s, m[1], m[2])}
        first == CHOOSE m \in matches :
                    \A n \in matches : m[1] < n[1] \/ (m[1] = n[1] /\ m[2] >= n[2])
    IN  IF matches = {} THEN NaN ELSE DecimalValue(s, first[1], first[2])

(***************************************************************************)
(* C4: for every raw value, clean_numeric of its string form is the value  *)
(* of the first substring matching digits, optionally followed by a point  *)
(* and more digits; it is 0 when the string holds no digit; and it is      *)
(* never negative.                                                         *)
(***************************************************************************)
C4_CleanNumeric ==
    res.done =>
        LET s == astype_str(arg) IN
        /\ res.value >= 0
        /\ (\A i \in 1..Len(s) : s[i] \notin Digits) => res.value = 0
        /\ (\E i \in 1..Len(s) : s[i] \in Digits) => res.value = FirstDecimalNumber(s)

\* "5.5x" has been cleaned to 5.5
C4_Witness ==
    /\ res.done
    /\ arg = Str(<<"5", ".", "5", "x">>)
    /\ res.value = 5 * Scale + 5 * (Scale \div 10)

====
